---------------------------- MODULE Spec2Model ----------------------------
(***************************************************************************)
(* The case priority / scheduling engine of the legal case manager:        *)
(* backend/services/aiSchedulerService.js (AISchedulerService), the Case   *)
(* model it reads and writes (the Case schema, its pre-save hook and       *)
(* updateDelayInfo) and the routes that trigger it.                        *)
(*                                                                         *)
(* Time is counted in ticks; TicksPerDay ticks make 24 hours.              *)
(***************************************************************************)
EXTENDS Integers, Sequences, FiniteSets, TLC

(***************************************************************************)
(* Bounds of the model.                                                    *)
(***************************************************************************)
TicksPerDay == 1      \* resolution of the clock: ticks in 24 hours
MaxTime == 2          \* the clock stops advancing at this tick
NumSmall == 1         \* cases in the store of the store-centred specification
MaxNotes == 0         \* user notes the model keeps per case
LiveCases == 6        \* cases in the store of the specification with fairness
Excess == 1           \* how far a model's numbers leave the range 0..100
UrgentCases == 3       \* cases of the store getUrgentCases is called on
MaxLimit == 2          \* largest limit getUrgentCases is called with
NumUsers == 2          \* users of the User collection
RebalanceCases == 2    \* cases of the store rebalanceLawyerWorkloads counts
StaleCount == 7        \* caseStats.activeCases before any rebalancing

(***************************************************************************)
(* Constants of the program.                                               *)
(***************************************************************************)
batchSize == 5        \* runSchedulerAnalysis: const batchSize = 5
selectionLimit == 20  \* getCasesForAnalysis: .limit(20)

Null == "null"        \* JavaScript null / a field that holds no value

(***************************************************************************)
(* JavaScript values, as far as parseAIResponse can tell them apart.       *)
(* t is the type, n the payload of a number (and the length of an array),  *)
(* s the payload of a string (and the first element of an array).          *)
(***************************************************************************)
JSVal(t, n, s) == [t |-> t, n |-> n, s |-> s]
Undef == JSVal("undefined", 0, "")
JSNull == JSVal("null", 0, "")
NaN == JSVal("nan", 0, "")
Num(n) == JSVal("number", n, "")
Str(s) == JSVal("string", 0, s)
Bool(b) == JSVal("boolean", IF b THEN 1 ELSE 0, "")
Arr(len, first) == JSVal("array", len, first)
Obj == JSVal("object", 0, "")

\* Number(s) for the strings of the model.
StringToNumber(s) ==
  IF s = "" THEN Num(0)
  ELSE IF s = "80" THEN Num(80)
  ELSE NaN

\* ToNumber, the coercion Math.min and Math.max apply to their arguments.
ToNumber(v) ==
  CASE v.t = "number" -> v
    [] v.t = "nan" -> NaN
    [] v.t = "undefined" -> NaN
    [] v.t = "null" -> Num(0)
    [] v.t = "boolean" -> Num(v.n)
    [] v.t = "string" -> StringToNumber(v.s)
    [] v.t = "array" -> IF v.n = 0 THEN Num(0)
                        ELSE IF v.n = 1 THEN StringToNumber(v.s)
                        ELSE NaN
    [] OTHER -> NaN

\* ToBoolean, the test of a || b.
Truthy(v) ==
  CASE v.t \in {"undefined", "null", "nan"} -> FALSE
    [] v.t = "number" -> v.n # 0
    [] v.t = "boolean" -> v.n = 1
    [] v.t = "string" -> v.s # ""
    [] OTHER -> TRUE

\* Mutant: a ?? b, which replaces undefined and null only.
JSNullish(a, b) == IF a.t \in {"undefined", "null"} THEN b ELSE a

\* a || b
JSOr(a, b) == IF Truthy(a) THEN a ELSE b

\* Math.min(a, b) and Math.max(a, b): NaN as soon as one argument is NaN.
MathMin(a, b) ==
  LET x == ToNumber(a)
      y == ToNumber(b)
  IN IF x.t = "nan" \/ y.t = "nan" THEN NaN
     ELSE IF x.n <= y.n THEN x ELSE y

MathMax(a, b) ==
  LET x == ToNumber(a)
      y == ToNumber(b)
  IN IF x.t = "nan" \/ y.t = "nan" THEN NaN
     ELSE IF x.n >= y.n THEN x ELSE y

\* Array.isArray(v)
IsArray(v) == v.t = "array"

(***************************************************************************)
(* The text of a model response, as a sequence of tokens.  A token is a    *)
(* code fence with the json tag, a bare code fence, a newline, text that   *)
(* is no JSON, or the text of one JSON value (doc).                        *)
(***************************************************************************)
FieldNames ==
  {"priorityScore", "complexityScore", "urgencyFactors", "delayRiskFactors",
   "estimatedDuration", "successProbability", "similarCasesCount", "reasoning"}

NoFields == [f \in FieldNames |-> Undef]

\* A JSON value: its top-level type and, for an object, its members
\* (a member that is missing reads as undefined).
JsonDoc(top, fields) == [top |-> top, fields |-> fields]

Tok(k, doc) == [k |-> k, doc |-> doc]
NoDoc == JsonDoc(Undef, NoFields)
FenceJson == Tok("fence_json", NoDoc)
Fence == Tok("fence", NoDoc)
Newline == Tok("nl", NoDoc)
Prose == Tok("text", NoDoc)
JsonText(doc) == Tok("json", doc)

\* analysis.<name> for the value JSON.parse returned
GetField(doc, name) ==
  IF doc.top.t = "object" THEN doc.fields[name] ELSE Undef


\* A model response: the content string of the completion, or null.
TextResponse(toks) == [null |-> FALSE, text |-> toks]
NullResponse == [null |-> TRUE, text |-> << >>]

\* aiResponse.replace(/```json\n?|\n?```/g, ''): at each position the first
\* alternative is tried before the second, so a newline in front of a tagged
\* fence is consumed with the three backquotes and the tag "json" stays as text.
RECURSIVE StripFences(_)
StripFences(toks) ==
  IF toks = << >> THEN << >>
  ELSE LET h == Head(toks)
           rest == Tail(toks)
           next == IF rest = << >> THEN "none" ELSE Head(rest).k
       IN CASE h.k = "fence_json" ->
                 IF next = "nl" THEN StripFences(Tail(rest)) ELSE StripFences(rest)
            [] h.k = "nl" /\ next = "fence" -> StripFences(Tail(rest))
            [] h.k = "nl" /\ next = "fence_json" -> <<Prose>> \o StripFences(Tail(rest))
            [] h.k = "fence" -> StripFences(rest)
            [] OTHER -> <<h>> \o StripFences(rest)

\* String.prototype.trim(): white space off both ends
RECURSIVE TrimLeft(_)
TrimLeft(toks) ==
  IF toks # << >> /\ Head(toks).k = "nl" THEN TrimLeft(Tail(toks)) ELSE toks

RECURSIVE TrimRight(_)
TrimRight(toks) ==
  IF toks # << >> /\ toks[Len(toks)].k = "nl"
  THEN TrimRight(SubSeq(toks, 1, Len(toks) - 1))
  ELSE toks

Trim(toks) == TrimLeft(TrimRight(toks))

\* JSON.parse(text) returns a value exactly when the text is one JSON value
\* (white space around it is allowed); it throws a SyntaxError otherwise.
JsonParses(toks) == Len(toks) = 1 /\ toks[1].k = "json"
JsonParse(toks) == toks[1].doc

\* The result returned from the catch block (lines 293-302).
DefaultAnalysis ==
  [priorityScore |-> Num(50),
   complexityScore |-> Num(50),
   urgencyFactors |-> Arr(1, "Analysis parsing failed"),
   delayRiskFactors |-> Arr(1, "Unable to determine"),
   estimatedDuration |-> Num(30),
   successProbability |-> Num(50),
   similarCasesCount |-> Num(0),
   reasoning |-> Str("Default analysis due to parsing error")]

\* The result returned from the try block (lines 278-287).
NormalizedAnalysis(analysis) ==
  [priorityScore |->
     MathMax(Num(0), MathMin(Num(100), JSOr(GetField(analysis, "priorityScore"), Num(50)))),
   complexityScore |->
     MathMax(Num(0), MathMin(Num(100), JSOr(GetField(analysis, "complexityScore"), Num(50)))),
   urgencyFactors |->
     IF IsArray(GetField(analysis, "urgencyFactors"))
     THEN GetField(analysis, "urgencyFactors") ELSE Arr(0, ""),
   delayRiskFactors |->
     IF IsArray(GetField(analysis, "delayRiskFactors"))
     THEN GetField(analysis, "delayRiskFactors") ELSE Arr(0, ""),
   estimatedDuration |->
     MathMax(Num(1), JSOr(GetField(analysis, "estimatedDuration"), Num(30))),
   successProbability |->
     MathMax(Num(0), MathMin(Num(100), JSOr(GetField(analysis, "successProbability"), Num(50)))),
   similarCasesCount |->
     MathMax(Num(0), JSOr(GetField(analysis, "similarCasesCount"), Num(0))),
   reasoning |-> JSOr(GetField(analysis, "reasoning"), Str("AI analysis completed"))]

\* Whether the try block throws: aiResponse.replace on null, JSON.parse on
\* text that is no JSON, or a property read on the parsed value null.
ParseThrows(aiResponse) ==
  \/ aiResponse.null
  \/ ~JsonParses(Trim(StripFences(aiResponse.text)))
  \/ JsonParse(Trim(StripFences(aiResponse.text))).top.t = "null"

parseAIResponse(aiResponse) ==
  IF ParseThrows(aiResponse)
  THEN DefaultAnalysis
  ELSE NormalizedAnalysis(JsonParse(Trim(StripFences(aiResponse.text))))

(***************************************************************************)
(* The responses the scoring model is taken to give.                       *)
(***************************************************************************)
ModelNumbers == {0 - Excess, 0, 1, 30, 88, 100, 100 + Excess}

ModelValues ==
  {Undef, JSNull, Bool(TRUE), Str(""), Str("high"), Str("80"),
   Arr(0, ""), Arr(2, "deadline"), Obj}
  \cup {Num(n) : n \in ModelNumbers}

ModelLists == {Undef, Arr(0, ""), Arr(2, "deadline"), Str("none")}

ModelReasonings == {Undef, Str(""), Str("because"), Arr(0, ""), Num(7)}

\* JSON objects: every member ranges over the values above; the three
\* members complexityScore, successProbability and similarCasesCount share
\* one value, and so do the two lists.
ModelObjects ==
  {JsonDoc(Obj,
     [priorityScore |-> a, complexityScore |-> b, urgencyFactors |-> l,
      delayRiskFactors |-> l, estimatedDuration |-> c, successProbability |-> b,
      similarCasesCount |-> b, reasoning |-> r]) :
     a \in ModelValues, b \in ModelValues, c \in ModelValues,
     l \in ModelLists, r \in ModelReasonings}

\* JSON values that are no object
ModelScalars ==
  {JsonDoc(v, NoFields) : v \in {JSNull, Num(5), Str("high"), Bool(TRUE), Arr(0, "")}}

WellFormedDoc ==
  JsonDoc(Obj,
    [priorityScore |-> Num(88), complexityScore |-> Num(30),
     urgencyFactors |-> Arr(2, "deadline"), delayRiskFactors |-> Arr(2, "deadline"),
     estimatedDuration |-> Num(30), successProbability |-> Num(30),
     similarCasesCount |-> Num(30), reasoning |-> Str("because")])

\* The ways a response wraps its JSON value.
Wrappings(doc) ==
  {<<JsonText(doc)>>,
   <<JsonText(doc), Newline>>,
   <<FenceJson, Newline, JsonText(doc), Newline, Fence>>,
   <<Fence, Newline, JsonText(doc), Newline, Fence>>,
   <<FenceJson, JsonText(doc), Fence>>,
   <<Newline, FenceJson, Newline, JsonText(doc), Newline, Fence>>,
   <<Prose, Newline, JsonText(doc)>>,
   <<JsonText(doc), Prose>>}

\* Text that holds no complete JSON value (truncated or empty output).
BrokenTexts == {<< >>, <<Prose>>, <<FenceJson, Newline, Prose>>, <<Newline>>}

Responses ==
  {NullResponse}
  \cup {TextResponse(t) : t \in BrokenTexts}
  \cup {TextResponse(<<JsonText(d)>>) : d \in ModelObjects \cup ModelScalars}
  \cup {TextResponse(t) : t \in Wrappings(WellFormedDoc)}
  \cup {TextResponse(t) : t \in Wrappings(JsonDoc(Obj, NoFields))}


(***************************************************************************)
(* The Case Store: the documents of the Case model.                        *)
(***************************************************************************)
Statuses ==
  {"pending_assignment", "assigned", "in_progress", "under_review",
   "awaiting_hearing", "in_court", "completed", "dismissed", "settled", "appealed"}

\* status: { $nin: ['completed', 'dismissed', 'settled'] }
TerminalStatuses == {"completed", "dismissed", "settled"}

\* status: { $in: ['assigned', 'in_progress', 'awaiting_hearing'] }
ActiveStatuses == {"assigned", "in_progress", "awaiting_hearing"}

\* A date field that holds null, or a path that is missing from the document.
NoDate == 0 - 1
\* new Date(NaN), what setDate(NaN) leaves
InvalidDate == 0 - 2

\* The largest store: one case more than a selection can return.
NumBig == selectionLimit + 1
CaseIds == 1 .. NumBig

DefaultAiAnalysis(t) ==
  [complexityScore |-> Num(50),
   urgencyFactors |-> Arr(0, ""),
   delayRiskFactors |-> Arr(0, ""),
   estimatedDuration |-> Undef,
   similarCasesCount |-> Num(0),
   successProbability |-> Num(50),
   lastAnalyzed |-> t]

DefaultDelayInfo == [isDelayed |-> FALSE, delayDays |-> 0, delayImpact |-> "low"]

\* A document as the schema's defaults make it at time t (POST /api/cases
\* sets status 'pending_assignment'; timestamps sets updatedAt).
NewCase(t) ==
  [exists |-> TRUE,
   status |-> "pending_assignment",
   priority |-> "medium",
   priorityScore |-> Num(50),
   hearingDate |-> NoDate,
   expectedCompletionDate |-> NoDate,
   aiAnalysis |-> DefaultAiAnalysis(t),
   delayInfo |-> DefaultDelayInfo,
   notes |-> << >>,
   assignedLawyer |-> 0,
   updatedAt |-> t]

\* The slot of an id no document has.
NoCase == [NewCase(NoDate) EXCEPT !.exists = FALSE]

\* A note of the notes array.
UserNote == [createdBy |-> "user", score |-> Undef, reasoning |-> Undef]

\* Math.floor((a - b) / (1000 * 60 * 60 * 24))
DaysBetween(a, b) == (a - b) \div TicksPerDay

\* Mutant: the hook leaves delayInfo as the document carries it.
KeepDelayInfo(doc, t) == doc.delayInfo

\* caseSchema.methods.updateDelayInfo, at time t
updateDelayInfo(doc, t) ==
  LET late == doc.expectedCompletionDate \notin {NoDate, InvalidDate}
              /\ t > doc.expectedCompletionDate
      lateDays == IF late THEN DaysBetween(t, doc.expectedCompletionDate) ELSE 0
      missed == doc.hearingDate # NoDate /\ t > doc.hearingDate
                /\ doc.status = "awaiting_hearing"
      hearingDelay == IF missed THEN DaysBetween(t, doc.hearingDate) ELSE 0
      delayDays == IF missed /\ hearingDelay > lateDays THEN hearingDelay ELSE lateDays
  IN [isDelayed |-> late \/ missed,
      delayDays |-> delayDays,
      delayImpact |-> IF delayDays > 180 THEN "critical"
                      ELSE IF delayDays > 90 THEN "high"
                      ELSE IF delayDays > 30 THEN "medium"
                      ELSE "low"]


(***************************************************************************)
(* The Case Selector: the filter of getCasesForAnalysis.                   *)
(***************************************************************************)
\* { 'aiAnalysis.lastAnalyzed': { $exists: false } }
NeverAnalyzed(doc) == doc.aiAnalysis.lastAnalyzed = NoDate

\* Mutant: the comparison is turned round ($gte).
AnalyzedSince(doc, oneDayAgo) ==
  doc.aiAnalysis.lastAnalyzed # NoDate /\ doc.aiAnalysis.lastAnalyzed >= oneDayAgo

\* { 'aiAnalysis.lastAnalyzed': { $lt: oneDayAgo } }
AnalyzedBefore(doc, oneDayAgo) ==
  doc.aiAnalysis.lastAnalyzed # NoDate /\ doc.aiAnalysis.lastAnalyzed < oneDayAgo

\* 'aiAnalysis.lastAnalyzed': { $lt: '$updatedAt' }: the operand is the
\* string '$updatedAt', not the document's updatedAt field, and a stored date
\* is never less than a string: the comparison selects no document.
LastAnalyzedBelowOperand(doc) == FALSE

\* { status: { $in: [...] }, 'aiAnalysis.lastAnalyzed': { $lt: '$updatedAt' } }
StatusChangeClause(doc) ==
  doc.status \in ActiveStatuses /\ LastAnalyzedBelowOperand(doc)

\* The whole filter of Case.find(...)
MatchesFilter(doc, oneDayAgo) ==
  /\ doc.exists
  /\ \/ NeverAnalyzed(doc)
     \/ AnalyzedBefore(doc, oneDayAgo)
     \/ StatusChangeClause(doc)
  /\ doc.status \notin TerminalStatuses

\* The ids of a set in ascending order.
RECURSIVE SortedSeq(_)
SortedSeq(S) ==
  IF S = {} THEN << >>
  ELSE LET m == CHOOSE x \in S : \A y \in S : x <= y
       IN <<m>> \o SortedSeq(S \ {m})

Min(a, b) == IF a <= b THEN a ELSE b

\* The subsets of S that have k elements.
RECURSIVE SubsetsOfSize(_, _)
SubsetsOfSize(S, k) ==
  IF k = 0 THEN {{}}
  ELSE IF Cardinality(S) < k THEN {}
  ELSE IF Cardinality(S) = k THEN {S}
  ELSE LET x == CHOOSE y \in S : TRUE
       IN {T \cup {x} : T \in SubsetsOfSize(S \ {x}, k - 1)}
          \cup SubsetsOfSize(S \ {x}, k)

\* The results Case.find(filter).limit(20) may give on store st: the query has
\* no sort, so any selectionLimit of the matching documents may come back.
getCasesForAnalysis(st, oneDayAgo) ==
  LET matching == {c \in CaseIds : MatchesFilter(st[c], oneDayAgo)}
      size == Min(selectionLimit, Cardinality(matching))
  IN {SortedSeq(S) : S \in SubsetsOfSize(matching, size)}

(***************************************************************************)
(* updateCaseWithAIAnalysis and caseDoc.save().                            *)
(***************************************************************************)
\* Mutant: the thresholds are exclusive.
ScoreAbove(score, bound) == score.t = "number" /\ score.n > bound

\* analysis.priorityScore >= bound (false for NaN)
ScoreAtLeast(score, bound) == score.t = "number" /\ score.n >= bound

\* lines 314-318
PriorityLabel(score) ==
  IF ScoreAtLeast(score, 90) THEN "critical"
  ELSE IF ScoreAtLeast(score, 75) THEN "urgent"
  ELSE IF ScoreAtLeast(score, 60) THEN "high"
  ELSE IF ScoreAtLeast(score, 40) THEN "medium"
  ELSE "low"

\* caseSchema.virtual('urgencyLevel'): the same thresholds, read from the
\* document's priorityScore.
urgencyLevel(doc) ==
  IF ScoreAtLeast(doc.priorityScore, 90) THEN "critical"
  ELSE IF ScoreAtLeast(doc.priorityScore, 75) THEN "urgent"
  ELSE IF ScoreAtLeast(doc.priorityScore, 60) THEN "high"
  ELSE IF ScoreAtLeast(doc.priorityScore, 40) THEN "medium"
  ELSE "low"

\* createdBy of the note the analysis pushes (line 341)
AnalysisNoteAuthor == Null

AnalysisNote(analysis) ==
  [createdBy |-> AnalysisNoteAuthor,
   score |-> analysis.priorityScore,
   reasoning |-> analysis.reasoning]

\* Mutant: the date is set only when the case has none.
SetsWhenMissing(doc) == doc.expectedCompletionDate = NoDate

\* if (!caseDoc.expectedCompletionDate || caseDoc.status === 'assigned')
SetsCompletionDate(doc) ==
  doc.expectedCompletionDate = NoDate \/ doc.status = "assigned"

\* completionDate.setDate(completionDate.getDate() + analysis.estimatedDuration)
CompletionDate(t, duration) ==
  IF duration.t = "number" THEN t + duration.n * TicksPerDay ELSE InvalidDate

\* The document in memory after the assignments of updateCaseWithAIAnalysis
\* (lines 311-344), made at time t.
updateCaseWithAIAnalysis(doc, analysis, t) ==
  [doc EXCEPT
     !.priorityScore = analysis.priorityScore,
     !.priority = PriorityLabel(analysis.priorityScore),
     !.aiAnalysis =
       [complexityScore |-> analysis.complexityScore,
        urgencyFactors |-> analysis.urgencyFactors,
        delayRiskFactors |-> analysis.delayRiskFactors,
        estimatedDuration |-> analysis.estimatedDuration,
        similarCasesCount |-> analysis.similarCasesCount,
        successProbability |-> analysis.successProbability,
        lastAnalyzed |-> t],
     !.expectedCompletionDate =
       IF SetsCompletionDate(doc)
       THEN CompletionDate(t, analysis.estimatedDuration)
       ELSE doc.expectedCompletionDate,
     !.notes = Append(doc.notes, AnalysisNote(analysis))]

\* A Number path with min 0 and max 100
InRange(v) == v.t = "number" /\ v.n >= 0 /\ v.n <= 100

\* Mutant: createdBy is not required.
AuthorOptional(note) == TRUE

\* notes[].createdBy: { type: ObjectId, ref: 'User', required: true }
NoteValid(note) == note.createdBy # Null

\* The validation save() runs before it writes: the schema's types, ranges
\* and required paths, on the paths the analysis set.
Validates(doc) ==
  /\ InRange(doc.priorityScore)
  /\ InRange(doc.aiAnalysis.complexityScore)
  /\ InRange(doc.aiAnalysis.successProbability)
  /\ doc.aiAnalysis.estimatedDuration.t = "number"
  /\ doc.aiAnalysis.similarCasesCount.t = "number"
  /\ doc.expectedCompletionDate # InvalidDate
  /\ \A i \in 1 .. Len(doc.notes) : NoteValid(doc.notes[i])

\* The stored document after a save of the analysed document doc at time t:
\* save() writes the paths the analysis set and the pushed note, the pre-save
\* hook recomputes delayInfo, timestamps sets updatedAt.  Paths the analysis
\* did not touch (status among them) keep what the store holds.
SavedAnalysis(stored, doc, setsDate, t) ==
  [stored EXCEPT
     !.priorityScore = doc.priorityScore,
     !.priority = doc.priority,
     !.aiAnalysis = doc.aiAnalysis,
     !.expectedCompletionDate =
       IF setsDate THEN doc.expectedCompletionDate ELSE stored.expectedCompletionDate,
     !.notes = Append(stored.notes, doc.notes[Len(doc.notes)]),
     !.delayInfo = updateDelayInfo(doc, t),
     !.updatedAt = t]


(***************************************************************************)
(* The state.                                                              *)
(***************************************************************************)
VARIABLES
  now,               \* the clock
  cases,             \* the Case Store: id -> document
  isProcessing,      \* AISchedulerService.isProcessing
  lastRunTime,       \* AISchedulerService.lastRunTime (NoDate for null)
  run,               \* the hourly run in progress: where runSchedulerAnalysis is
  tasks,             \* id -> the analyzeSingleCase call of the hourly run on it
  manual,            \* the analyzeCaseManually call in progress
  aiResponse,        \* the response handed to parseAIResponse on its own
  analysis,          \* what parseAIResponse returned for it
  event,             \* what the last step did, where a property reads it
  runsActive,        \* runs that have set isProcessing and not yet reset it
  attempts,          \* id -> scoring calls the current hourly run started for it
  batchesDispatched, \* batches the current hourly run has dispatched
  delaysDone,        \* inter-batch delays the current hourly run has waited
  selection,         \* what the last candidate query returned, and its cutoff
  lastSaved,         \* the id of the document the core saved last
  urgent,            \* the getUrgentCases call in progress
  users,             \* the User collection: id -> document
  rebalance          \* the rebalanceLawyerWorkloads call in progress

vars ==
  <<now, cases, isProcessing, lastRunTime, run, tasks, manual, aiResponse,
    analysis, event, runsActive, attempts, batchesDispatched, delaysDone,
    selection, lastSaved, urgent, users, rebalance>>

storeVars == <<cases, lastSaved>>
schedulerVars == <<isProcessing, lastRunTime, run, tasks, runsActive>>
countVars == <<attempts, batchesDispatched, delaysDone, selection>>
parseVars == <<aiResponse, analysis>>
serviceVars == <<urgent, users, rebalance>>

Range(seq) == {seq[i] : i \in 1 .. Len(seq)}

IdleRun == [pc |-> "idle", oneDayAgo |-> 0, selected |-> << >>, i |-> 0]
IdleTask == [phase |-> "idle", doc |-> NoCase, setsDate |-> FALSE]
SettledTask == [IdleTask EXCEPT !.phase = "settled"]
\* The analyzeCaseManually call: where it is (pc), the document it found and
\* updates in memory (doc) and what became of its analysis (outcome).
IdleManual ==
  [pc |-> "idle", id |-> 0, doc |-> NoCase, setsDate |-> FALSE, outcome |-> "none"]
NoSelection == [returned |-> {}, oneDayAgo |-> 0]

\* The responses the scoring model gives in the runs of the scheduler.
RunResponses ==
  {TextResponse(<<FenceJson, Newline, JsonText(WellFormedDoc), Newline, Fence>>),
   TextResponse(<<Prose>>)}

\* The response of the runs over the large store.
BatchResponses ==
  {TextResponse(<<FenceJson, Newline, JsonText(WellFormedDoc), Newline, Fence>>)}

\* The statuses PUT /api/cases/:id/status is called with.
StatusInputs == {"assigned", "under_review", "completed"}

(***************************************************************************)
(* The environment: the clock and the users' status changes.               *)
(***************************************************************************)
Tick ==
  /\ now < MaxTime
  /\ now' = now + 1
  /\ event' = "step"
  /\ UNCHANGED <<storeVars, schedulerVars, countVars, parseVars, serviceVars, manual>>

\* notes.push(...) of a user's note; the model keeps the first MaxNotes of them
AddUserNote(notes) ==
  IF Len(notes) < MaxNotes THEN Append(notes, UserNote) ELSE notes

\* PUT /api/cases/:id/status -> caseDoc.updateStatus(status, user): the status
\* is set, a note is added and the document is saved.
updateStatus(doc, newStatus, t) ==
  LET changed == [doc EXCEPT !.status = newStatus, !.notes = AddUserNote(doc.notes)]
  IN [changed EXCEPT !.delayInfo = updateDelayInfo(changed, t), !.updatedAt = t]

StatusChange(c, newStatus) ==
  /\ cases[c].exists
  /\ cases' = [cases EXCEPT ![c] = updateStatus(cases[c], newStatus, now)]
  /\ event' = "step"
  /\ UNCHANGED <<now, lastSaved, schedulerVars, countVars, parseVars, serviceVars, manual>>

\* The date fields PUT /api/cases/:id may set, of those the model keeps.
DateFields == {"hearingDate", "expectedCompletionDate"}

\* Mutant: priority is among the fields a request may set.
updateCaseWithPriority(doc, field, value, t) ==
  [doc EXCEPT !.priority = "critical", !.updatedAt = t]

\* PUT /api/cases/:id (lines 330-347): the field of the request body is set
\* on the document found and the document is saved; the pre-save hook
\* recomputes delayInfo and timestamps sets updatedAt.
updateCase(doc, field, value, t) ==
  LET changed == IF field = "hearingDate"
                 THEN [doc EXCEPT !.hearingDate = value]
                 ELSE [doc EXCEPT !.expectedCompletionDate = value]
  IN [changed EXCEPT !.delayInfo = updateDelayInfo(changed, t), !.updatedAt = t]

CaseUpdate(c, field, value) ==
  /\ cases[c].exists
  /\ cases' = [cases EXCEPT ![c] = updateCase(cases[c], field, value, now)]
  /\ event' = "step"
  /\ UNCHANGED <<now, lastSaved, schedulerVars, countVars, parseVars, serviceVars, manual>>

\* POST /api/cases (lines 224-266): new Case(caseData) and save(): the case
\* is stored with the schema's defaults, or the save is rejected and the
\* route answers with an error.
CreateCase(c) ==
  /\ ~cases[c].exists
  /\ \E accepted \in BOOLEAN :
       cases' = IF accepted THEN [cases EXCEPT ![c] = NewCase(now)] ELSE cases
  /\ event' = "step"
  /\ UNCHANGED <<now, lastSaved, schedulerVars, countVars, parseVars, serviceVars, manual>>


(***************************************************************************)
(* runSchedulerAnalysis: the hourly run.                                   *)
(***************************************************************************)
\* Mutant: the re-entrancy guard is missing.
GuardMissing == FALSE

\* if (this.isProcessing) (line 54)
AlreadyProcessing == isProcessing

\* Mutant: the flag is not reset when the run ends.
FlagNotReset == isProcessing

\* finally { this.isProcessing = false; } (line 91)
FlagAfterRun == FALSE

\* Mutant: the batch is all that is left of the selection.
RestOfSelection(sel, i) == {sel[j] : j \in (i + 1) .. Len(sel)}

\* casesToAnalyze.slice(i, i + batchSize), as the set of its ids
BatchIds(sel, i) == {sel[j] : j \in (i + 1) .. Min(i + batchSize, Len(sel))}

\* i < casesToAnalyze.length (line 75)
LoopContinues(i, len) == i < len

\* Mutant: the delay is also waited after the last batch.
DelayAfterLast(i, len) == i + batchSize <= len

\* if (i + batchSize < casesToAnalyze.length) (line 80)
DelayFollows(i, len) == i + batchSize < len

\* Mutant: the run goes on as soon as one call of the batch has settled.
FirstSettled(ts, batch) == \E c \in batch : ts[c].phase = "settled"

\* await Promise.allSettled(promises) (line 127): every call of the batch
\* has settled
BatchSettled(ts, batch) == \A c \in batch : ts[c].phase = "settled"

\* cases.map(caseDoc => this.analyzeSingleCase(caseDoc)) (line 126): every
\* case of the batch has its scoring call started
processCaseBatch(ts, batch) ==
  [c \in CaseIds |-> IF c \in batch THEN [ts[c] EXCEPT !.phase = "scoring"] ELSE ts[c]]

\* Mutant: the error of one case ends the work on every case not yet settled.
AbortOnCaseError(ts, c) ==
  [d \in CaseIds |->
     IF ts[d].phase \in {"selected", "scoring", "saving"} THEN SettledTask ELSE ts[d]]

\* The catch block of analyzeSingleCase (lines 151-153): the error of one
\* case is logged and its call settles; the other calls are not touched.
CatchCaseError(ts, c) == [ts EXCEPT ![c] = SettledTask]

\* The run leaves runSchedulerAnalysis through finally.
EndRun ==
  /\ isProcessing' = FlagAfterRun
  /\ run' = IdleRun
  /\ tasks' = [c \in CaseIds |-> IdleTask]
  /\ runsActive' = IF runsActive > 0 THEN runsActive - 1 ELSE 0

\* The run dispatches the batch that starts at index i of the selection sel.
DispatchBatch(ts, sel, i, oneDayAgo) ==
  /\ tasks' = processCaseBatch(ts, BatchIds(sel, i))
  /\ run' = [pc |-> "batch", oneDayAgo |-> oneDayAgo, selected |-> sel, i |-> i]
  /\ attempts' = [c \in CaseIds |->
                    IF c \in BatchIds(sel, i) THEN attempts[c] + 1 ELSE attempts[c]]
  /\ batchesDispatched' = batchesDispatched + 1
  /\ UNCHANGED <<isProcessing, runsActive>>

\* runSchedulerAnalysis() up to its first await (lines 54-64).
runSchedulerAnalysis ==
  IF AlreadyProcessing
  THEN /\ event' = "trigger_skipped"
       /\ UNCHANGED <<now, storeVars, schedulerVars, countVars, parseVars, serviceVars, manual>>
  ELSE /\ isProcessing' = TRUE
       /\ run' = [IdleRun EXCEPT !.pc = "selecting", !.oneDayAgo = now - TicksPerDay]
       /\ runsActive' = runsActive + 1
       /\ attempts' = [c \in CaseIds |-> 0]
       /\ batchesDispatched' = 0
       /\ delaysDone' = 0
       /\ selection' = NoSelection
       /\ tasks' = [c \in CaseIds |-> IdleTask]
       /\ event' = "step"
       /\ UNCHANGED <<now, storeVars, lastRunTime, parseVars, serviceVars, manual>>

\* cron.schedule('0 * * * *', ...) fires
CronTrigger == runSchedulerAnalysis

\* POST /api/admin/ai/analyze-all
AdminTrigger == runSchedulerAnalysis

\* Mutant: the run is stamped although it was aborted.
StampedOnError == now

\* lastRunTime after the catch block (lines 87-89): the assignment of line
\* 85 was skipped.
LastRunTimeOnError == lastRunTime

\* The candidate query rejects: catch logs, finally resets (lines 87-92).
SelectionFails ==
  /\ run.pc = "selecting"
  /\ EndRun
  /\ lastRunTime' = LastRunTimeOnError
  /\ event' = "selection_failed"
  /\ UNCHANGED <<now, storeVars, countVars, parseVars, serviceVars, manual>>

\* The candidate query resolves with sel (lines 64-77): no case ends the
\* run, otherwise the first batch is dispatched.
SelectionResolves ==
  /\ run.pc = "selecting"
  /\ \E sel \in getCasesForAnalysis(cases, run.oneDayAgo) :
       /\ selection' = [returned |-> Range(sel), oneDayAgo |-> run.oneDayAgo]
       /\ IF Len(sel) = 0
          THEN /\ EndRun
               /\ UNCHANGED <<attempts, batchesDispatched>>
          ELSE DispatchBatch(
                 [c \in CaseIds |->
                    IF c \in Range(sel)
                    THEN [phase |-> "selected", doc |-> cases[c], setsDate |-> FALSE]
                    ELSE IdleTask],
                 sel, 0, run.oneDayAgo)
  /\ event' = "selection_resolved"
  /\ UNCHANGED <<now, storeVars, lastRunTime, delaysDone, parseVars, serviceVars, manual>>

\* What follows the settling of a call of the run, ts being the calls after
\* it: when the batch has settled the run waits the delay (line 81) or, after
\* the last batch, sets lastRunTime and ends (lines 85-91).
AfterSettle(ts) ==
  IF run.pc = "batch" /\ BatchSettled(ts, BatchIds(run.selected, run.i))
  THEN IF DelayFollows(run.i, Len(run.selected))
       THEN /\ run' = [run EXCEPT !.pc = "delay"]
            /\ tasks' = ts
            /\ UNCHANGED <<isProcessing, lastRunTime, runsActive>>
       ELSE /\ EndRun
            /\ lastRunTime' = now
  ELSE /\ tasks' = ts
       /\ UNCHANGED <<isProcessing, lastRunTime, run, runsActive>>

\* The scoring call of case c rejects (network or API error).
ScoringFails(c) ==
  /\ tasks[c].phase = "scoring"
  /\ AfterSettle(CatchCaseError(tasks, c))
  /\ event' = "scoring_failed"
  /\ UNCHANGED <<now, storeVars, countVars, parseVars, serviceVars, manual>>

\* The scoring call of case c resolves with response r (lines 141-147): the
\* response is parsed, the document is updated in memory and save() is called.
ScoringSucceeds(c, r) ==
  /\ tasks[c].phase = "scoring"
  /\ tasks' = [tasks EXCEPT ![c] =
                 [phase |-> "saving",
                  doc |-> updateCaseWithAIAnalysis(tasks[c].doc, parseAIResponse(r), now),
                  setsDate |-> SetsCompletionDate(tasks[c].doc)]]
  /\ event' = "step"
  /\ UNCHANGED <<now, storeVars, isProcessing, lastRunTime, run, runsActive,
                 countVars, parseVars, serviceVars, manual>>

\* save() of case c settles: validation rejects the document before anything
\* is written; a document that validates is written unless the store fails.
SaveSettles(c) ==
  /\ tasks[c].phase = "saving"
  /\ IF Validates(tasks[c].doc)
     THEN \E storeOk \in BOOLEAN :
            IF storeOk
            THEN /\ cases' = [cases EXCEPT ![c] =
                     SavedAnalysis(cases[c], tasks[c].doc, tasks[c].setsDate, now)]
                 /\ lastSaved' = c
                 /\ event' = "saved"
                 /\ AfterSettle([tasks EXCEPT ![c] = SettledTask])
            ELSE /\ event' = "step"
                 /\ AfterSettle(CatchCaseError(tasks, c))
                 /\ UNCHANGED storeVars
     ELSE /\ event' = "step"
          /\ AfterSettle(CatchCaseError(tasks, c))
          /\ UNCHANGED storeVars
  /\ UNCHANGED <<now, countVars, parseVars, serviceVars, manual>>

\* await this.delay(2000) resolves (lines 75-81): the loop steps to the next
\* batch.
DelayElapses ==
  /\ run.pc = "delay"
  /\ delaysDone' = delaysDone + 1
  /\ IF LoopContinues(run.i + batchSize, Len(run.selected))
     THEN /\ DispatchBatch(tasks, run.selected, run.i + batchSize, run.oneDayAgo)
          /\ UNCHANGED lastRunTime
     ELSE /\ EndRun
          /\ lastRunTime' = now
          /\ UNCHANGED <<attempts, batchesDispatched>>
  /\ event' = "step"
  /\ UNCHANGED <<now, storeVars, selection, parseVars, serviceVars, manual>>


(***************************************************************************)
(* analyzeCaseManually: the on-demand analysis of one case.                *)
(***************************************************************************)
\* The ids the on-demand trigger is called with: the cases of the store and
\* one id that no case has.
ManualIds == 1 .. (NumSmall + 1)

\* analyzeCaseManually(caseId) is called (POST /api/cases/:id/analyze, or the
\* timers of the create, update and assign routes): Case.findById is issued.
ManualTrigger(id) ==
  /\ manual.pc = "idle"
  /\ manual' = [IdleManual EXCEPT !.pc = "finding", !.id = id]
  /\ event' = "step"
  /\ UNCHANGED <<now, storeVars, schedulerVars, countVars, parseVars, serviceVars>>

\* Mutant: a missing case is not checked for.
FoundAnyway(doc) == FALSE

\* if (!caseDoc) (line 452)
NotFound(doc) == ~doc.exists

\* Case.findById settles (lines 448-456): a store error is thrown to the
\* caller, a missing case throws 'Case not found'; otherwise
\* analyzeSingleCase starts the scoring call on the document found.
ManualFindSettles ==
  /\ manual.pc = "finding"
  /\ \E storeOk \in BOOLEAN :
       IF ~storeOk
       THEN /\ manual' = [manual EXCEPT !.pc = "raised", !.outcome = "store_error"]
            /\ event' = "manual_error"
       ELSE IF NotFound(cases[manual.id])
       THEN /\ manual' = [manual EXCEPT !.pc = "raised", !.outcome = "not_found"]
            /\ event' = "manual_error"
       ELSE /\ manual' = [manual EXCEPT !.pc = "scoring", !.doc = cases[manual.id]]
            /\ event' = "step"
  /\ UNCHANGED <<now, storeVars, schedulerVars, countVars, parseVars, serviceVars>>

\* The scoring call rejects: analyzeSingleCase catches the error, and
\* analyzeCaseManually goes on to read the case back (line 458).
ManualScoringFails ==
  /\ manual.pc = "scoring"
  /\ manual' = [manual EXCEPT !.pc = "refetch", !.outcome = "scoring_failed"]
  /\ event' = "step"
  /\ UNCHANGED <<now, storeVars, schedulerVars, countVars, parseVars, serviceVars>>

\* The scoring call resolves with response r: parse, update, save().
ManualScoringSucceeds(r) ==
  /\ manual.pc = "scoring"
  /\ manual' = [manual EXCEPT
                  !.pc = "saving",
                  !.doc = updateCaseWithAIAnalysis(manual.doc, parseAIResponse(r), now),
                  !.setsDate = SetsCompletionDate(manual.doc)]
  /\ event' = "step"
  /\ UNCHANGED <<now, storeVars, schedulerVars, countVars, parseVars, serviceVars>>

\* save() settles; its rejection is caught by analyzeSingleCase.
ManualSaveSettles ==
  /\ manual.pc = "saving"
  /\ IF Validates(manual.doc)
     THEN \E storeOk \in BOOLEAN :
            IF storeOk
            THEN /\ cases' = [cases EXCEPT ![manual.id] =
                     SavedAnalysis(cases[manual.id], manual.doc, manual.setsDate, now)]
                 /\ lastSaved' = manual.id
                 /\ event' = "manual_saved"
                 /\ manual' = [manual EXCEPT !.pc = "refetch", !.outcome = "saved"]
            ELSE /\ event' = "step"
                 /\ manual' = [manual EXCEPT !.pc = "refetch", !.outcome = "save_failed"]
                 /\ UNCHANGED storeVars
     ELSE /\ event' = "manual_save_rejected"
          /\ manual' = [manual EXCEPT !.pc = "refetch", !.outcome = "save_rejected"]
          /\ UNCHANGED storeVars
  /\ UNCHANGED <<now, schedulerVars, countVars, parseVars, serviceVars>>

\* The second Case.findById settles (line 458): the case as the store holds
\* it (cases[manual.id]) is returned, or the store's error is thrown.
ManualRefetchSettles ==
  /\ manual.pc = "refetch"
  /\ \E storeOk \in BOOLEAN :
       IF storeOk
       THEN /\ manual' = [manual EXCEPT !.pc = "returned", !.doc = NoCase]
            /\ event' = "manual_returned"
       ELSE /\ manual' = [manual EXCEPT !.pc = "raised", !.doc = NoCase]
            /\ event' = "manual_error"
  /\ UNCHANGED <<now, storeVars, schedulerVars, countVars, parseVars, serviceVars>>

\* The caller has the call's outcome: POST /api/cases/:id/analyze answers
\* with the returned case, or with status 500 when the call raised.
ManualResponds ==
  /\ manual.pc \in {"returned", "raised"}
  /\ manual' = IdleManual
  /\ event' = "step"
  /\ UNCHANGED <<now, storeVars, schedulerVars, countVars, parseVars, serviceVars>>

(***************************************************************************)
(* getUrgentCases: the cases that need immediate attention.                *)
(***************************************************************************)
IdleUrgent == [pc |-> "idle", limit |-> 0, result |-> << >>]

\* { priorityScore: { $gte: 80 } }
HighScore(doc) == ScoreAtLeast(doc.priorityScore, 80)

\* { 'delayInfo.isDelayed': true, 'delayInfo.delayDays': { $gte: 30 } }
LongDelayed(doc) == doc.delayInfo.isDelayed /\ doc.delayInfo.delayDays >= 30

\* Mutant: any hearing date counts.
HearingSet(doc, t) == doc.hearingDate # NoDate

\* { hearingDate: { $lte: new Date(Date.now() + 7 * 24 * 60 * 60 * 1000) } }:
\* a null hearingDate is not compared with a date.
HearingSoon(doc, t) ==
  doc.hearingDate # NoDate /\ doc.hearingDate <= t + 7 * TicksPerDay

\* The filter of getUrgentCases at time t
UrgentMatches(doc, t) ==
  /\ doc.exists
  /\ HighScore(doc) \/ LongDelayed(doc) \/ HearingSoon(doc, t)
  /\ doc.status \notin TerminalStatuses

\* The orders .sort({ priorityScore: -1 }) may give the documents of S.
RECURSIVE SortedByScore(_, _)
SortedByScore(st, S) ==
  IF S = {} THEN {<< >>}
  ELSE UNION {{<<m>> \o rest : rest \in SortedByScore(st, S \ {m})} :
                m \in {x \in S : \A y \in S :
                         st[x].priorityScore.n >= st[y].priorityScore.n}}

\* The results Case.find(filter).sort({ priorityScore: -1 }).limit(limit) may
\* give on store st at time t: the first documents of an order by score.
getUrgentCases(st, limit, t) ==
  LET matching == {c \in CaseIds : UrgentMatches(st[c], t)}
  IN {SubSeq(order, 1, Min(limit, Len(order))) : order \in SortedByScore(st, matching)}

\* getUrgentCases(limit) is called (GET /api/cases/urgent): the query is issued.
UrgentCall(limit) ==
  /\ urgent.pc = "idle"
  /\ urgent' = [IdleUrgent EXCEPT !.pc = "querying", !.limit = limit]
  /\ event' = "step"
  /\ UNCHANGED <<now, storeVars, schedulerVars, countVars, parseVars, manual,
                 users, rebalance>>

\* The query settles: its documents are returned, or the store's error is
\* thrown to the caller.
UrgentQuerySettles ==
  /\ urgent.pc = "querying"
  /\ \E storeOk \in BOOLEAN :
       IF storeOk
       THEN \E res \in getUrgentCases(cases, urgent.limit, now) :
              /\ urgent' = [urgent EXCEPT !.pc = "returned", !.result = res]
              /\ event' = "urgent_returned"
       ELSE /\ urgent' = [urgent EXCEPT !.pc = "raised"]
            /\ event' = "step"
  /\ UNCHANGED <<now, storeVars, schedulerVars, countVars, parseVars, manual,
                 users, rebalance>>

\* The route answers with the cases, or with status 500.
UrgentResponds ==
  /\ urgent.pc \in {"returned", "raised"}
  /\ urgent' = IdleUrgent
  /\ event' = "step"
  /\ UNCHANGED <<now, storeVars, schedulerVars, countVars, parseVars, manual,
                 users, rebalance>>

(***************************************************************************)
(* rebalanceLawyerWorkloads and the User collection.                       *)
(***************************************************************************)
UserIds == 1 .. NumUsers

\* The slot of an id no user has.
NoUser == [exists |-> FALSE, role |-> "client", isActive |-> FALSE, activeCases |-> 0]

\* The rebalanceLawyerWorkloads call: where it is (pc), the lawyers User.find
\* returned, the index of the loop, the count in hand, and what
\* caseStats.activeCases held for each user when the lawyers were read.
IdleRebalance ==
  [pc |-> "idle", lawyers |-> << >>, i |-> 0, count |-> 0,
   before |-> [u \in 1 .. NumUsers |-> 0]]

\* User.find({ role: 'lawyer', isActive: true })
ActiveLawyers(us) ==
  {u \in UserIds : us[u].exists /\ us[u].role = "lawyer" /\ us[u].isActive}

\* Mutant: the status filter is missing from the count.
AllAssignedCases(st, u) ==
  Cardinality({c \in CaseIds : st[c].exists /\ st[c].assignedLawyer = u})

\* Case.countDocuments({ assignedLawyer: lawyer._id,
\*                       status: { $nin: ['completed', 'dismissed', 'settled'] } })
LawyerCases(st, u) ==
  Cardinality({c \in CaseIds :
                 /\ st[c].exists
                 /\ st[c].assignedLawyer = u
                 /\ st[c].status \notin TerminalStatuses})

\* rebalanceLawyerWorkloads() is called (runComprehensiveAnalysis, daily):
\* User.find is issued.
RebalanceStart ==
  /\ rebalance.pc = "idle"
  /\ rebalance' = [IdleRebalance EXCEPT !.pc = "finding"]
  /\ event' = "step"
  /\ UNCHANGED <<now, storeVars, schedulerVars, countVars, parseVars, manual,
                 urgent, users>>

\* User.find settles (line 391): the loop starts on the lawyers found, or
\* the store's error is thrown.
RebalanceFindSettles ==
  /\ rebalance.pc = "finding"
  /\ \E storeOk \in BOOLEAN :
       IF storeOk
       THEN LET lawyers == SortedSeq(ActiveLawyers(users))
            IN rebalance' = [rebalance EXCEPT
                               !.pc = IF Len(lawyers) = 0 THEN "done" ELSE "counting",
                               !.lawyers = lawyers,
                               !.i = 1,
                               !.before = [u \in UserIds |-> users[u].activeCases]]
       ELSE rebalance' = [rebalance EXCEPT !.pc = "raised"]
  /\ event' = IF rebalance'.pc = "done" THEN "rebalanced" ELSE "step"
  /\ UNCHANGED <<now, storeVars, schedulerVars, countVars, parseVars, manual,
                 urgent, users>>

\* Case.countDocuments settles (lines 394-400): the count is set on the
\* lawyer's document in memory and save() is called.
RebalanceCountSettles ==
  /\ rebalance.pc = "counting"
  /\ \E storeOk \in BOOLEAN :
       IF storeOk
       THEN rebalance' = [rebalance EXCEPT
                            !.pc = "saving",
                            !.count = LawyerCases(cases, rebalance.lawyers[rebalance.i])]
       ELSE rebalance' = [rebalance EXCEPT !.pc = "raised"]
  /\ event' = "step"
  /\ UNCHANGED <<now, storeVars, schedulerVars, countVars, parseVars, manual,
                 urgent, users>>

\* lawyer.save() settles (line 401): the path caseStats.activeCases is
\* written, and the loop goes to the next lawyer or ends.
RebalanceSaveSettles ==
  /\ rebalance.pc = "saving"
  /\ \E storeOk \in BOOLEAN :
       IF storeOk
       THEN /\ users' = [users EXCEPT
                           ![rebalance.lawyers[rebalance.i]].activeCases = rebalance.count]
            /\ rebalance' = [rebalance EXCEPT
                               !.pc = IF rebalance.i < Len(rebalance.lawyers)
                                      THEN "counting" ELSE "done",
                               !.i = rebalance.i + 1]
       ELSE /\ rebalance' = [rebalance EXCEPT !.pc = "raised"]
            /\ UNCHANGED users
  /\ event' = IF rebalance'.pc = "done" THEN "rebalanced" ELSE "step"
  /\ UNCHANGED <<now, storeVars, schedulerVars, countVars, parseVars, manual, urgent>>

\* The call has completed or raised: runComprehensiveAnalysis logs it
\* (lines 367-371).
RebalanceEnds ==
  /\ rebalance.pc \in {"done", "raised"}
  /\ rebalance' = IdleRebalance
  /\ event' = "step"
  /\ UNCHANGED <<now, storeVars, schedulerVars, countVars, parseVars, manual,
                 urgent, users>>

\* PUT /api/users/:id/status: an admin activates or deactivates a user.
UserStatusChange(u, active) ==
  /\ users[u].exists
  /\ users' = [users EXCEPT ![u].isActive = active]
  /\ event' = "step"
  /\ UNCHANGED <<now, storeVars, schedulerVars, countVars, parseVars, manual,
                 urgent, rebalance>>

\* The other calls of the service are idle and the User collection is empty.
NoService ==
  /\ urgent = IdleUrgent
  /\ users = [u \in UserIds |-> NoUser]
  /\ rebalance = IdleRebalance

(***************************************************************************)
(* parseAIResponse on its own.                                             *)
(***************************************************************************)
NotParsed == [DefaultAnalysis EXCEPT !.reasoning = Undef]

Parse ==
  /\ event = "response"
  /\ analysis' = parseAIResponse(aiResponse)
  /\ event' = "parsed"
  /\ UNCHANGED <<now, storeVars, schedulerVars, countVars, manual, aiResponse, serviceVars>>

(***************************************************************************)
(* The specifications.                                                     *)
(***************************************************************************)
\* What every specification starts from: an idle scheduler.
InitScheduler ==
  /\ isProcessing = FALSE
  /\ lastRunTime = NoDate
  /\ run = IdleRun
  /\ tasks = [c \in CaseIds |-> IdleTask]
  /\ manual = IdleManual
  /\ runsActive = 0
  /\ attempts = [c \in CaseIds |-> 0]
  /\ batchesDispatched = 0
  /\ delaysDone = 0
  /\ selection = NoSelection
  /\ lastSaved = 0
  /\ NoService

NoParse ==
  /\ aiResponse = NullResponse
  /\ analysis = NotParsed

\* Spec: a store of NumSmall cases created at time 0, the users, the hourly
\* and the on-demand triggers.  A selection of this store fits in one batch,
\* so no inter-batch delay is ever waited here (DelayElapses is in BatchSpec).
Init ==
  /\ now = 0
  /\ cases = [c \in CaseIds |-> IF c <= NumSmall THEN NewCase(0) ELSE NoCase]
  /\ InitScheduler
  /\ NoParse
  /\ event = "init"

Next ==
  \/ Tick
  \/ \E c \in CaseIds, st \in StatusInputs : StatusChange(c, st)
  \/ CronTrigger
  \/ AdminTrigger
  \/ SelectionFails
  \/ SelectionResolves
  \/ \E c \in CaseIds : ScoringFails(c)
  \/ \E c \in CaseIds, r \in RunResponses : ScoringSucceeds(c, r)
  \/ \E c \in CaseIds : SaveSettles(c)
  \/ \E id \in ManualIds : ManualTrigger(id)
  \/ ManualFindSettles
  \/ ManualScoringFails
  \/ \E r \in RunResponses : ManualScoringSucceeds(r)
  \/ ManualSaveSettles
  \/ ManualRefetchSettles
  \/ ManualResponds

Spec == Init /\ [][Next]_vars

\* BatchSpec: hourly runs, one triggered after the other, over a store of up
\* to NumBig cases, all of them last analysed more than a day ago.
BatchInit ==
  /\ now = TicksPerDay + 1
  /\ \E k \in 0 .. NumBig :
       cases = [c \in CaseIds |-> IF c <= k THEN NewCase(0) ELSE NoCase]
  /\ InitScheduler
  /\ NoParse
  /\ event = "init"

BatchNext ==
  \/ ~isProcessing /\ CronTrigger
  \/ SelectionFails
  \/ SelectionResolves
  \/ \E c \in CaseIds : ScoringFails(c)
  \/ \E c \in CaseIds, r \in BatchResponses : ScoringSucceeds(c, r)
  \/ \E c \in CaseIds : SaveSettles(c)
  \/ DelayElapses

BatchSpec == BatchInit /\ [][BatchNext]_vars

\* ParseSpec: parseAIResponse applied to each response of Responses.
ParseInit ==
  /\ now = 0
  /\ cases = [c \in CaseIds |-> NoCase]
  /\ InitScheduler
  /\ aiResponse \in Responses
  /\ analysis = NotParsed
  /\ event = "response"

ParseNext == Parse

ParseSpec == ParseInit /\ [][ParseNext]_vars

\* UpdateSpec: analyzeSingleCase from the moment its scoring call resolves,
\* on one stored case of each status, label and completion date, for each
\* score and duration the model may answer with.
UpdateDocs ==
  {[NewCase(0) EXCEPT !.status = st, !.priority = pr, !.expectedCompletionDate = d] :
     st \in {"pending_assignment", "assigned", "completed"},
     pr \in {"low", "medium", "critical"},
     d \in {NoDate, 0, MaxTime + 1}}

UpdateResponses ==
  {TextResponse(<<JsonText(
      [WellFormedDoc EXCEPT !.fields.priorityScore = Num(a),
                            !.fields.estimatedDuration = d])>>) :
     a \in (0 - Excess) .. (100 + Excess),
     d \in {Undef, Num(1), Num(3), Str("high")}}

UpdateInit ==
  /\ now = 1
  /\ \E doc \in UpdateDocs :
       /\ cases = [c \in CaseIds |-> IF c = 1 THEN doc ELSE NoCase]
       /\ manual = [IdleManual EXCEPT !.pc = "scoring", !.id = 1, !.doc = doc]
  /\ isProcessing = FALSE
  /\ lastRunTime = NoDate
  /\ run = IdleRun
  /\ tasks = [c \in CaseIds |-> IdleTask]
  /\ runsActive = 0
  /\ attempts = [c \in CaseIds |-> 0]
  /\ batchesDispatched = 0
  /\ delaysDone = 0
  /\ selection = NoSelection
  /\ lastSaved = 0
  /\ NoService
  /\ NoParse
  /\ event = "init"

UpdateNext ==
  \/ \E r \in UpdateResponses : ManualScoringSucceeds(r)
  \/ ManualSaveSettles
  \/ ManualRefetchSettles
  \/ ManualResponds

UpdateSpec == UpdateInit /\ [][UpdateNext]_vars

\* UrgentSpec: getUrgentCases called, with each limit, on each store of
\* UrgentCases cases drawn from UrgentDocs.
UrgentDocs ==
  LET assigned == [NewCase(0) EXCEPT !.status = "assigned", !.priorityScore = Num(70)]
      late(days) == [isDelayed |-> TRUE, delayDays |-> days, delayImpact |-> "low"]
  IN {[assigned EXCEPT !.priorityScore = Num(82)],
      [assigned EXCEPT !.priorityScore = Num(80)],
      assigned,
      [assigned EXCEPT !.priorityScore = Num(95), !.status = "completed"],
      [assigned EXCEPT !.delayInfo = late(30)],
      [assigned EXCEPT !.delayInfo = late(29)],
      [assigned EXCEPT !.hearingDate = 7 * TicksPerDay],
      [assigned EXCEPT !.hearingDate = 7 * TicksPerDay + 1]}

UrgentInit ==
  /\ now = 0
  /\ \E docs \in [1 .. UrgentCases -> UrgentDocs] :
       cases = [c \in CaseIds |-> IF c <= UrgentCases THEN docs[c] ELSE NoCase]
  /\ isProcessing = FALSE
  /\ lastRunTime = NoDate
  /\ run = IdleRun
  /\ tasks = [c \in CaseIds |-> IdleTask]
  /\ manual = IdleManual
  /\ runsActive = 0
  /\ attempts = [c \in CaseIds |-> 0]
  /\ batchesDispatched = 0
  /\ delaysDone = 0
  /\ selection = NoSelection
  /\ lastSaved = 0
  /\ NoService
  /\ NoParse
  /\ event = "init"

UrgentNext ==
  \/ \E limit \in 1 .. MaxLimit : UrgentCall(limit)
  \/ UrgentQuerySettles
  \/ UrgentResponds

UrgentSpec == UrgentInit /\ [][UrgentNext]_vars

\* RebalanceSpec: rebalanceLawyerWorkloads over each store of NumUsers users
\* and RebalanceCases cases, while an admin activates and deactivates users.
\* No case changes while the call runs.
RebalanceUsers ==
  {[exists |-> TRUE, role |-> r, isActive |-> a, activeCases |-> StaleCount] :
     r \in {"lawyer", "client"}, a \in BOOLEAN}

RebalanceDocs ==
  {[NewCase(0) EXCEPT !.status = st, !.assignedLawyer = u] :
     st \in {"assigned", "completed"}, u \in UserIds}
  \cup {NewCase(0)}

RebalanceInit ==
  /\ now = 0
  /\ \E docs \in [1 .. RebalanceCases -> RebalanceDocs] :
       cases = [c \in CaseIds |-> IF c <= RebalanceCases THEN docs[c] ELSE NoCase]
  /\ users \in [UserIds -> RebalanceUsers]
  /\ urgent = IdleUrgent
  /\ rebalance = IdleRebalance
  /\ isProcessing = FALSE
  /\ lastRunTime = NoDate
  /\ run = IdleRun
  /\ tasks = [c \in CaseIds |-> IdleTask]
  /\ manual = IdleManual
  /\ runsActive = 0
  /\ attempts = [c \in CaseIds |-> 0]
  /\ batchesDispatched = 0
  /\ delaysDone = 0
  /\ selection = NoSelection
  /\ lastSaved = 0
  /\ NoParse
  /\ event = "init"

RebalanceNext ==
  \/ RebalanceStart
  \/ RebalanceFindSettles
  \/ RebalanceCountSettles
  \/ RebalanceSaveSettles
  \/ RebalanceEnds
  \/ \E u \in UserIds, active \in BOOLEAN : UserStatusChange(u, active)

RebalanceSpec == RebalanceInit /\ [][RebalanceNext]_vars

\* DelaySpec: the saves of the routes (PUT /api/cases/:id and
\* PUT /api/cases/:id/status) on one stored case, for each completion date,
\* hearing date and status around the thresholds of updateDelayInfo.  The
\* case was last saved at an earlier time, so its stored delayInfo is the
\* one derived then.
DelayNow == 200 * TicksPerDay

DelayDates ==
  {NoDate, DelayNow + TicksPerDay}
  \cup {DelayNow - k * TicksPerDay : k \in {0, 1, 30, 31, 90, 91, 180, 181}}

DelayDocs ==
  {LET doc == [NewCase(0) EXCEPT !.status = st, !.expectedCompletionDate = e,
                                !.hearingDate = h]
   IN [doc EXCEPT !.delayInfo = updateDelayInfo(doc, t0), !.updatedAt = t0] :
     st \in {"assigned", "awaiting_hearing"},
     e \in DelayDates,
     h \in DelayDates,
     t0 \in {0, DelayNow - 31 * TicksPerDay}}

DelayInit ==
  /\ now = DelayNow
  /\ \E doc \in DelayDocs :
       cases = [c \in CaseIds |-> IF c = 1 THEN doc ELSE NoCase]
  /\ InitScheduler
  /\ NoParse
  /\ event = "init"

DelayNext ==
  \/ \E field \in DateFields, value \in DelayDates : CaseUpdate(1, field, value)
  \/ \E st \in StatusInputs : StatusChange(1, st)

DelaySpec == DelayInit /\ [][DelayNext]_vars

\* StoreSpec: the writers of the Case Store side by side, on a store that
\* is empty or holds cases due for analysis: the creation of a case, the
\* edits and status changes of users, hourly runs and on-demand analyses.
StoreIds == 1 .. NumSmall

StoreInit ==
  /\ now = TicksPerDay + 1
  /\ \E k \in 0 .. NumSmall :
       cases = [c \in CaseIds |-> IF c <= k THEN NewCase(0) ELSE NoCase]
  /\ InitScheduler
  /\ NoParse
  /\ event = "init"

StoreNext ==
  \/ \E c \in StoreIds : CreateCase(c)
  \/ \E c \in StoreIds, value \in {NoDate, 0} :
       CaseUpdate(c, "expectedCompletionDate", value)
  \/ \E c \in StoreIds, st \in StatusInputs : StatusChange(c, st)
  \/ CronTrigger
  \/ SelectionFails
  \/ SelectionResolves
  \/ \E c \in CaseIds : ScoringFails(c)
  \/ \E c \in CaseIds, r \in RunResponses : ScoringSucceeds(c, r)
  \/ \E c \in CaseIds : SaveSettles(c)
  \/ \E id \in StoreIds : ManualTrigger(id)
  \/ ManualFindSettles
  \/ ManualScoringFails
  \/ \E r \in RunResponses : ManualScoringSucceeds(r)
  \/ ManualSaveSettles
  \/ ManualRefetchSettles
  \/ ManualResponds

StoreSpec == StoreInit /\ [][StoreNext]_vars

\* LiveSpec: the runs of BatchSpec over up to LiveCases cases, where every
\* pending store call, scoring call and timer of the run eventually settles.
LiveInit ==
  /\ now = TicksPerDay + 1
  /\ \E k \in 0 .. LiveCases :
       cases = [c \in CaseIds |-> IF c <= k THEN NewCase(0) ELSE NoCase]
  /\ InitScheduler
  /\ NoParse
  /\ event = "init"

RunSettles ==
  \/ SelectionFails
  \/ SelectionResolves
  \/ \E c \in CaseIds : ScoringFails(c)
  \/ \E c \in CaseIds, r \in BatchResponses : ScoringSucceeds(c, r)
  \/ \E c \in CaseIds : SaveSettles(c)
  \/ DelayElapses

LiveNext ==
  \/ CronTrigger
  \/ RunSettles

LiveSpec == LiveInit /\ [][LiveNext]_vars /\ WF_vars(RunSettles)

\* StarveSpec: hourly runs, one after the other, over a store of NumBig
\* cases that are all due for analysis, while the scoring service rejects
\* every call.  The cron trigger keeps firing, and every scoring call and
\* every timer of a run eventually settles.
StarveInit ==
  /\ now = TicksPerDay + 1
  /\ cases = [c \in CaseIds |-> NewCase(0)]
  /\ InitScheduler
  /\ NoParse
  /\ event = "init"

StarveNext ==
  \/ ~isProcessing /\ CronTrigger
  \/ SelectionResolves
  \/ \E c \in CaseIds : ScoringFails(c)
  \/ DelayElapses

StarveSpec ==
  /\ StarveInit
  /\ [][StarveNext]_vars
  /\ WF_vars(~isProcessing /\ CronTrigger)
  /\ WF_vars(\E c \in CaseIds : ScoringFails(c))
  /\ WF_vars(DelayElapses)

(***************************************************************************)
(* The properties.                                                         *)
(***************************************************************************)
InFlight(c) == tasks[c].phase \in {"scoring", "saving"}

CeilDiv(a, b) == (a + b - 1) \div b

\* C1: at most one hourly run is in progress at a time, whatever the
\* interleaving of cron and admin triggers: isProcessing is never set while
\* it is set, and a trigger that finds it set changes nothing (it selects and
\* scores no case).
C1_OneRunAtATime ==
  /\ [](runsActive <= 1 /\ (isProcessing <=> runsActive = 1))
  /\ [][event' = "trigger_skipped" =>
          /\ isProcessing
          /\ UNCHANGED <<cases, isProcessing, run, tasks, runsActive, attempts,
                         batchesDispatched, selection, lastRunTime>>]_vars

\* C1 witness: a trigger was skipped while a scoring call of the run in
\* progress was in flight.
C1_Witness ==
  /\ event = "trigger_skipped"
  /\ \E c \in CaseIds : tasks[c].phase = "scoring"

\* C2: isProcessing is true only while a run is active, and every run that
\* has set it resets it, whether the selection fails, returns no case, or
\* any of the scoring calls and saves fail, given that every pending call
\* of the run settles.
C2_RunReturnsToIdle ==
  /\ [](isProcessing => run.pc # "idle")
  /\ (isProcessing ~> ~isProcessing)

\* C2 witness: a run of two batches has ended and the scheduler is idle.
C2_Witness ==
  /\ ~isProcessing
  /\ run.pc = "idle"
  /\ batchesDispatched = 2
  /\ lastRunTime = now

\* C3: the calls in flight all belong to the batch being processed; every
\* case of an earlier batch has settled, no case of a later batch has been
\* started, and each batch after the first was dispatched by the elapsing of
\* the delay that followed the batch before it.
C3_BatchesInOrder ==
  /\ \A j \in 1 .. Len(run.selected) :
       /\ j <= run.i => tasks[run.selected[j]].phase = "settled"
       /\ j > run.i + batchSize => tasks[run.selected[j]].phase = "selected"
  /\ \A c \in CaseIds :
       InFlight(c) => run.pc = "batch" /\ c \in BatchIds(run.selected, run.i)
  /\ run.pc \in {"batch", "delay"} => batchesDispatched = delaysDone + 1

\* C3 witness: a call of the second batch is in flight after one delay.
C3_Witness ==
  /\ run.pc = "batch"
  /\ run.i = batchSize
  /\ delaysDone = 1
  /\ \E c \in CaseIds : tasks[c].phase = "scoring"

\* C4: a run that selected k cases and has ended dispatched ceil(k/5)
\* batches, waited ceil(k/5) - 1 delays and started exactly one scoring call
\* for every selected case (and none for any other case); no run starts more.
C4_BatchCount ==
  LET k == Cardinality(selection.returned)
  IN /\ \A c \in CaseIds : attempts[c] <= 1
     /\ k <= selectionLimit
     /\ (run.pc = "idle" /\ k >= 1) =>
          /\ batchesDispatched = CeilDiv(k, batchSize)
          /\ delaysDone = CeilDiv(k, batchSize) - 1
          /\ \A c \in CaseIds : attempts[c] = IF c \in selection.returned THEN 1 ELSE 0

\* C4 witness: a run over 20 cases has ended after 4 batches and 3 delays.
C4_Witness ==
  /\ run.pc = "idle"
  /\ Cardinality(selection.returned) = selectionLimit
  /\ batchesDispatched = 4
  /\ delaysDone = 3

StatedEligible(doc, oneDayAgo) ==
  /\ doc.exists
  /\ doc.status \notin TerminalStatuses
  /\ \/ doc.aiAnalysis.lastAnalyzed = NoDate
     \/ doc.aiAnalysis.lastAnalyzed < oneDayAgo
     \/ doc.status \in ActiveStatuses /\ doc.updatedAt > doc.aiAnalysis.lastAnalyzed

\* C6: a candidate query that resolves returns at most 20 cases, only cases
\* that satisfy the stated eligibility predicate, and all of them when at
\* most 20 satisfy it.
C6_SelectorContract ==
  LET eligible == {c \in CaseIds : StatedEligible(cases[c], selection.oneDayAgo)}
  IN event = "selection_resolved" =>
       /\ Cardinality(selection.returned) <= selectionLimit
       /\ selection.returned \subseteq eligible
       /\ Cardinality(eligible) <= selectionLimit => selection.returned = eligible

C9_ResultInRange ==
  event = "parsed" =>
    /\ InRange(analysis.priorityScore)
    /\ InRange(analysis.complexityScore)
    /\ InRange(analysis.successProbability)
    /\ analysis.estimatedDuration.t = "number" /\ analysis.estimatedDuration.n >= 1
    /\ analysis.similarCasesCount.t = "number" /\ analysis.similarCasesCount.n >= 0

\* A response that holds no JSON value: null, text without a JSON value, or
\* a JSON value with other text around it.
NotJson(resp) ==
  \/ resp.null
  \/ \A i \in 1 .. Len(resp.text) : resp.text[i].k # "json"
  \/ \E i \in 1 .. Len(resp.text) : resp.text[i].k = "text"

\* A response that is one JSON value without a priorityScore member.
JsonWithoutScore(resp) ==
  /\ ~resp.null
  /\ Len(resp.text) = 1
  /\ resp.text[1].k = "json"
  /\ GetField(resp.text[1].doc, "priorityScore") = Undef

NonEmptyString(v) == v.t = "string" /\ v.s # ""

AnalysisSaveSettled ==
  /\ manual.pc = "refetch"
  /\ event \in {"manual_saved", "manual_save_rejected"}

\* C11: when the scoring call succeeded and its response could not be
\* parsed, the stored case carries the default result and the lastAnalyzed
\* of this analysis, and the Selector's filter does not match it at any time
\* of the 24 hours that follow.
C11_UnparseableStillSaved ==
  (AnalysisSaveSettled
     /\ manual.doc.aiAnalysis.urgencyFactors = DefaultAnalysis.urgencyFactors) =>
    LET stored == cases[manual.id]
        analysed == manual.doc.aiAnalysis.lastAnalyzed
    IN /\ stored.priorityScore = DefaultAnalysis.priorityScore
       /\ stored.aiAnalysis.urgencyFactors = DefaultAnalysis.urgencyFactors
       /\ stored.aiAnalysis.lastAnalyzed = analysed
       /\ \A t \in analysed .. (analysed + TicksPerDay) :
            ~MatchesFilter(stored, t - TicksPerDay)

\* C13: when the scoring call succeeded, the save is accepted by the schema
\* validation and the stored case has the result's priorityScore, the
\* result's aiAnalysis with lastAnalyzed = the time of the analysis, and one
\* more note, the system note with the result's score and reasoning.
C13_AnalysisPersisted ==
  AnalysisSaveSettled =>
    LET stored == cases[manual.id]
    IN /\ event # "manual_save_rejected"
       /\ stored.priorityScore = manual.doc.priorityScore
       /\ stored.aiAnalysis = manual.doc.aiAnalysis
       /\ stored.notes = manual.doc.notes
       /\ stored.notes[Len(stored.notes)].score = manual.doc.priorityScore

\* The label the specification states for an integer score.
StatedLabel(n) ==
  IF n >= 90 THEN "critical"
  ELSE IF n >= 75 THEN "urgent"
  ELSE IF n >= 60 THEN "high"
  ELSE IF n >= 40 THEN "medium"
  ELSE "low"

\* C12: the priority label updateCaseWithAIAnalysis sets is the stated
\* function of the priorityScore it sets, for every integer score in 0..100
\* and whatever label, status and dates the case had; it agrees with the
\* urgencyLevel virtual.
C12_LabelFromScore ==
  manual.pc = "saving" =>
    /\ manual.doc.priorityScore.t = "number"
    /\ manual.doc.priorityScore.n \in 0 .. 100
    /\ manual.doc.priority = StatedLabel(manual.doc.priorityScore.n)
    /\ manual.doc.priority = urgencyLevel(manual.doc)

\* C12 witness: a case labelled critical is given score 89 and the label
\* urgent.
C12_Witness ==
  /\ manual.pc = "saving"
  /\ cases[manual.id].priority = "critical"
  /\ manual.doc.priorityScore = Num(89)
  /\ manual.doc.priority = "urgent"

\* C14: updateCaseWithAIAnalysis sets expectedCompletionDate to now +
\* estimatedDuration days exactly when the case had no expectedCompletionDate
\* or its status is assigned (an invalid date when estimatedDuration is no
\* number), and leaves it as it was otherwise.
C14_CompletionDate ==
  manual.pc = "saving" =>
    LET before == cases[manual.id]
        duration == manual.doc.aiAnalysis.estimatedDuration
    IN IF before.expectedCompletionDate = NoDate \/ before.status = "assigned"
       THEN manual.doc.expectedCompletionDate =
              IF duration.t = "number" THEN now + duration.n * TicksPerDay
              ELSE InvalidDate
       ELSE manual.doc.expectedCompletionDate = before.expectedCompletionDate

\* C14 witness: an assigned case that had a completion date is given a new
\* one, three days from now.
C14_Witness ==
  /\ manual.pc = "saving"
  /\ cases[manual.id].status = "assigned"
  /\ cases[manual.id].expectedCompletionDate = 0
  /\ manual.doc.aiAnalysis.estimatedDuration = Num(3)
  /\ manual.doc.expectedCompletionDate = now + 3 * TicksPerDay

\* C15: an on-demand analysis called with an id that no case has ends by
\* raising, with 'Case not found' unless the store itself failed; it starts
\* no scoring call and writes nothing.
C15_CaseNotFound ==
  /\ [](/\ manual.pc \in {"scoring", "saving", "refetch", "returned"} =>
             cases[manual.id].exists
        /\ manual.outcome = "not_found" =>
             manual.pc = "raised" /\ ~cases[manual.id].exists)
  /\ [][(manual.pc = "finding" /\ ~cases[manual.id].exists /\ manual' # manual) =>
          /\ manual'.pc = "raised"
          /\ manual'.outcome \in {"not_found", "store_error"}
          /\ event' = "manual_error"
          /\ cases' = cases]_vars

\* C15 witness: the call has raised 'Case not found'.
C15_Witness ==
  /\ manual.pc = "raised"
  /\ manual.outcome = "not_found"
  /\ event = "manual_error"

\* C16: when the on-demand analysis of an existing case returns a case, the
\* analysis of this call was saved.
C16_ReturnsUpdatedCase ==
  manual.pc = "returned" => manual.outcome = "saved"

\* C17: when the candidate query of a run fails, the run ends at once: no
\* scoring call was started, no case was written, lastRunTime keeps its
\* value, isProcessing is reset, and the scheduler is idle (the error stays
\* inside the run).
C17_SelectionErrorAborts ==
  /\ [](event = "selection_failed" =>
          /\ ~isProcessing
          /\ run.pc = "idle"
          /\ batchesDispatched = 0
          /\ \A c \in CaseIds : attempts[c] = 0 /\ tasks[c].phase = "idle")
  /\ [][event' = "selection_failed" =>
          /\ run.pc = "selecting"
          /\ isProcessing
          /\ lastRunTime' = lastRunTime
          /\ cases' = cases]_vars

\* C17 witness: a run that followed a completed run was aborted by the
\* failure of its candidate query; lastRunTime is the completed run's.
C17_Witness ==
  /\ event = "selection_failed"
  /\ lastRunTime # NoDate
  /\ \E c \in CaseIds : cases[c].exists

\* C18: when the scoring call of a case of the run fails, the stored case is
\* not changed; if it is still as the run selected it, the Selector's filter
\* matches it at every later time.
C18_FailedCaseRetried ==
  [][\A c \in CaseIds :
       (event' = "scoring_failed" /\ tasks[c].phase = "scoring"
          /\ tasks'[c].phase # "scoring") =>
         /\ cases'[c] = cases[c]
         /\ cases[c] = tasks[c].doc =>
              /\ cases[c].status \notin TerminalStatuses
              /\ \A t \in now .. (MaxTime + TicksPerDay) :
                   MatchesFilter(cases'[c], t - TicksPerDay)]_vars

\* C18 witness: the scoring call of the run's case has failed, and the case,
\* unchanged, matches the filter.
C18_Witness ==
  /\ event = "scoring_failed"
  /\ selection.returned = {1}
  /\ attempts[1] = 1
  /\ cases[1] = NewCase(0)
  /\ MatchesFilter(cases[1], now - TicksPerDay)

\* The condition the specification states for an urgent case at time t.
StatedUrgent(doc, t) ==
  /\ doc.exists
  /\ doc.status \notin TerminalStatuses
  /\ \/ doc.priorityScore.n >= 80
     \/ doc.delayInfo.isDelayed /\ doc.delayInfo.delayDays >= 30
     \/ doc.hearingDate # NoDate /\ doc.hearingDate <= t + 7 * TicksPerDay

\* C19: getUrgentCases(limit) returns only urgent cases, each once, in
\* non-increasing priorityScore order, min(limit, number of urgent cases) of
\* them, none with a lower score than an urgent case it leaves out; a case
\* with score 70, no delay and no hearing within 7 days is not returned.
C19_UrgentCases ==
  urgent.pc = "returned" =>
    LET res == urgent.result
        returned == Range(res)
        qualifying == {c \in CaseIds : StatedUrgent(cases[c], now)}
        score(c) == cases[c].priorityScore.n
    IN /\ returned \subseteq qualifying
       /\ Cardinality(returned) = Len(res)
       /\ Len(res) <= urgent.limit
       /\ Len(res) = Min(urgent.limit, Cardinality(qualifying))
       /\ \A i, j \in 1 .. Len(res) : i < j => score(res[i]) >= score(res[j])
       /\ \A r \in returned, q \in qualifying \ returned : score(q) <= score(r)
       /\ \A c \in returned :
            ~(/\ score(c) = 70
              /\ ~cases[c].delayInfo.isDelayed
              /\ cases[c].hearingDate = NoDate)

\* C19 witness: three cases are urgent, by score, by delay and by hearing
\* date, and a call with limit 2 returned the case with score 82 first.
C19_Witness ==
  /\ urgent.pc = "returned"
  /\ urgent.limit = 2
  /\ Cardinality({c \in CaseIds : StatedUrgent(cases[c], now)}) = 3
  /\ Len(urgent.result) = 2
  /\ cases[urgent.result[1]].priorityScore = Num(82)
  /\ cases[urgent.result[2]].priorityScore = Num(70)
  /\ \E c \in CaseIds : cases[c].exists /\ cases[c].hearingDate = 7 * TicksPerDay
  /\ \E c \in CaseIds : cases[c].exists /\ cases[c].delayInfo.delayDays = 30

\* C20 as stated: when the call completes, every active lawyer has
\* caseStats.activeCases equal to the number of its non-terminal cases, and
\* every other user is as it was.
C20_WorkloadsAsStated ==
  event = "rebalanced" =>
    \A u \in UserIds :
      IF users[u].exists /\ users[u].role = "lawyer" /\ users[u].isActive
      THEN users[u].activeCases =
             Cardinality({c \in CaseIds :
                            /\ cases[c].exists
                            /\ cases[c].assignedLawyer = u
                            /\ cases[c].status \notin TerminalStatuses})
      ELSE users[u].activeCases = rebalance.before[u]

\* C20 amended: when the call completes, every user that was an active
\* lawyer when the call read the users has caseStats.activeCases equal to
\* the number of its non-terminal cases, and every other user is as it was.
C20_Workloads ==
  event = "rebalanced" =>
    \A u \in UserIds :
      IF u \in Range(rebalance.lawyers)
      THEN users[u].activeCases =
             Cardinality({c \in CaseIds :
                            /\ cases[c].exists
                            /\ cases[c].assignedLawyer = u
                            /\ cases[c].status \notin TerminalStatuses})
      ELSE users[u].activeCases = rebalance.before[u]

\* C20 witness: the call has completed for two lawyers, one of them
\* deactivated while it ran; one has an active and a completed case.
C20_Witness ==
  /\ event = "rebalanced"
  /\ rebalance.lawyers = <<1, 2>>
  /\ ~users[2].isActive
  /\ users[1].activeCases = 1
  /\ users[2].activeCases = 0
  /\ cases[1].assignedLawyer = 1 /\ cases[1].status = "assigned"
  /\ cases[2].assignedLawyer = 1 /\ cases[2].status = "completed"

\* C21: when the rebalancing of one lawyer fails (its count or its save), every
\* other lawyer the call read still has caseStats.activeCases recomputed
\* by the time the call ends.
C21_FailureIsolated ==
  (rebalance.pc = "raised" /\ rebalance.lawyers # << >>) =>
    \A j \in 1 .. Len(rebalance.lawyers) :
      j # rebalance.i =>
        users[rebalance.lawyers[j]].activeCases =
          Cardinality({c \in CaseIds :
                         /\ cases[c].exists
                         /\ cases[c].assignedLawyer = rebalance.lawyers[j]
                         /\ cases[c].status \notin TerminalStatuses})

\* C22: a run whose selection succeeded sets lastRunTime to the time it
\* completes: when its last scoring call has failed, and when the selection
\* returned no case.
C22_CompletionStamped ==
  /\ (event = "scoring_failed" /\ run.pc = "idle") =>
       ~isProcessing /\ lastRunTime = now
  /\ (event = "selection_resolved" /\ selection.returned = {}) =>
       /\ run.pc = "idle"
       /\ ~isProcessing
       /\ lastRunTime = now

\* The delayInfo the specification states for a case at time t.
StatedDelay(doc, t) ==
  LET late == doc.expectedCompletionDate # NoDate /\ t > doc.expectedCompletionDate
      missed == /\ doc.hearingDate # NoDate
                /\ t > doc.hearingDate
                /\ doc.status = "awaiting_hearing"
      days == {0}
              \cup (IF late THEN {(t - doc.expectedCompletionDate) \div TicksPerDay}
                    ELSE {})
              \cup (IF missed THEN {(t - doc.hearingDate) \div TicksPerDay} ELSE {})
      d == doc.delayInfo.delayDays
  IN /\ doc.delayInfo.isDelayed = (late \/ missed)
     /\ d \in days /\ \A x \in days : x <= d
     /\ d >= 0
     /\ ~doc.delayInfo.isDelayed => d = 0
     /\ doc.delayInfo.delayImpact =
          IF d > 180 THEN "critical"
          ELSE IF d > 90 THEN "high"
          ELSE IF d > 30 THEN "medium"
          ELSE "low"

C24_LastWriteWins ==
  (AnalysisSaveSettled /\ cases[manual.id].status # manual.doc.status) =>
    LET stored == cases[manual.id]
    IN /\ event # "manual_save_rejected"
       /\ stored.priorityScore = manual.doc.priorityScore
       /\ stored.priority = manual.doc.priority
       /\ stored.aiAnalysis = manual.doc.aiAnalysis
       /\ manual.setsDate =>
            stored.expectedCompletionDate = manual.doc.expectedCompletionDate

\* The stated clamping of an integer into lo..hi.
StatedClamp(lo, hi, v) == IF v < lo THEN lo ELSE IF v > hi THEN hi ELSE v

\* C25: on a successful parse every member the model returned as an integer
\* is clamped into its range (priorityScore, complexityScore and
\* successProbability into 0..100, estimatedDuration to at least 1,
\* similarCasesCount to at least 0), zero and negative values included, and
\* a factor list that is no list becomes the empty list.
C25_ClampedOnSuccess ==
  (event = "parsed" /\ ~ParseThrows(aiResponse)) =>
    LET given == JsonParse(Trim(StripFences(aiResponse.text)))
        score == GetField(given, "priorityScore")
        complexity == GetField(given, "complexityScore")
        success == GetField(given, "successProbability")
        duration == GetField(given, "estimatedDuration")
        similar == GetField(given, "similarCasesCount")
    IN /\ score.t = "number" =>
            analysis.priorityScore = Num(StatedClamp(0, 100, score.n))
       /\ complexity.t = "number" =>
            analysis.complexityScore = Num(StatedClamp(0, 100, complexity.n))
       /\ success.t = "number" =>
            analysis.successProbability = Num(StatedClamp(0, 100, success.n))
       /\ duration.t = "number" =>
            analysis.estimatedDuration = Num(IF duration.n < 1 THEN 1 ELSE duration.n)
       /\ similar.t = "number" =>
            analysis.similarCasesCount = Num(IF similar.n < 0 THEN 0 ELSE similar.n)
       /\ GetField(given, "urgencyFactors").t # "array" =>
            analysis.urgencyFactors = Arr(0, "")
       /\ GetField(given, "delayRiskFactors").t # "array" =>
            analysis.delayRiskFactors = Arr(0, "")

\* C26: a candidate query that resolves while the core has not yet saved an
\* analysis of any case returns every stored case that is not terminal (up
\* to the limit): a case never analysed does not wait 24 hours.
C26_NeverAnalyzedSelected ==
  (event = "selection_resolved" /\ lastSaved = 0) =>
    LET waiting == {c \in CaseIds :
                      cases[c].exists /\ cases[c].status \notin TerminalStatuses}
    IN Cardinality(waiting) <= selectionLimit => waiting \subseteq selection.returned

\* The scoring calls the current hourly run has started, over the ids of S.
RECURSIVE CallsStarted(_)
CallsStarted(S) ==
  IF S = {} THEN 0
  ELSE LET c == CHOOSE x \in S : TRUE
       IN attempts[c] + CallsStarted(S \ {c})

\* C27: at most batchSize (5) scoring calls of the hourly run are in flight
\* in any state, and one hourly run starts at most selectionLimit (20)
\* scoring calls.
C27_BoundedFanOut ==
  /\ Cardinality({c \in CaseIds : tasks[c].phase = "scoring"}) <= batchSize
  /\ CallsStarted(CaseIds) <= selectionLimit

\* C27 witness: over a store of 21 eligible cases, the five calls of the
\* fourth batch are in flight and the run has started 20 calls.
C27_Witness ==
  /\ \A c \in CaseIds : cases[c].exists
  /\ run.pc = "batch"
  /\ Cardinality({c \in CaseIds : tasks[c].phase = "scoring"}) = batchSize
  /\ CallsStarted(CaseIds) = selectionLimit

C29_NoStarvation ==
  []<>(event = "selection_resolved") =>
    (MatchesFilter(cases[NumBig], now - TicksPerDay) ~> (tasks[NumBig].phase = "scoring"))

=============================================================================
